---- MODULE Spec2Model ----
(***************************************************************************)
(* Online-DDL metadata store of syncer/online-ddl-tools/online_ddl.go:     *)
(* the in-memory map ghost schema => ghost table => GhostDDLInfo, its      *)
(* durable mirror (one row per id, ghost_schema, ghost_table), the         *)
(* embedded RWMutex and CheckAndUpdate's re-keying loop.                   *)
(***************************************************************************)
EXTENDS Integers, Sequences, FiniteSets, TLC

VARIABLES
    ddls,      \* Storage.ddls: ghost schema => (ghost table => GhostDDLInfo)
    rows,      \* durable table: <<id, ghost_schema, ghost_table>> => payload
    conn,      \* Storage.db / Storage.dbConn: "ok", "broken", "closed"
    lock,      \* Storage.RWMutex: "free" or the operation holding it
    cau,       \* locals of the CheckAndUpdate call in progress (or last one)
    ret,       \* the last public call, its arguments and what it returned
    nSaves,    \* number of Save calls made so far
    nCau,      \* number of CheckAndUpdate calls made so far
    args,      \* per key: ddl arguments of the successful Saves since the
               \* key was last deleted or cleared (<<"?">>: not only those)
    saved,     \* per key: the Record as it stood after the last successful
               \* Save, while phase is not "other"
    phase,     \* "saves": only successful Saves so far; "loaded": then a new
               \* store was constructed and Init loaded; "calls": only Save,
               \* Delete and Clear so far, failed ones too; "other"
    sv,        \* locals of the Save call that is inside its critical section
    rd         \* a caller of Get: its position, and the clone Get returned

vars == <<ddls, rows, conn, lock, cau, ret, nSaves, nCau, args, saved, phase,
          sv, rd>>

---------------------------------------------------------------------------
(* Bounds and input domains *)

MaxSaves == 3
MaxReconciles == 1
\* the longest DDLs a caller of Get grows its clone to
MaxCloneLen == 3

\* the keys Save is called with
SaveKeys    == {<<"g1", "t1">>, <<"g1", "t2">>, <<"g2", "t1">>}
Schemas     == {"g1", "g2", "g3"}
Tables      == {"t1", "t2"}
DDLTexts    == {"d1", "d2"}
\* what a caller of Get writes into the Record it was given
CallerTexts == {"x"}
RealSchemas == {"rs"}
RealTables  == {"rt1"}
SourceID    == "src1"
\* the source identity of a second store that uses the same backing table
OtherID     == "src2"
\* what the second store saves
OtherTexts  == {"o1"}

Keys == Schemas \X Tables

---------------------------------------------------------------------------
(* Go maps as functions with a finite domain *)

EmptyMap == << >>

Put(m, k, v) == [y \in (DOMAIN m) \cup {k} |-> IF y = k THEN v ELSE m[y]]

Del(m, k) == [y \in (DOMAIN m) \ {k} |-> m[y]]

Lookup(m, k, dflt) == IF k \in DOMAIN m THEN m[k] ELSE dflt

---------------------------------------------------------------------------
(* GhostDDLInfo and its JSON payload *)

GhostDDLInfo(schema, table, stmts) ==
    [Schema |-> schema, Table |-> table, DDLs |-> stmts]

\* a Marshal that writes only the newest statement
MarshalNewest(info) ==
    <<"{", info.Schema, info.Table,
      IF info.DDLs = << >> THEN << >> ELSE <<info.DDLs[Len(info.DDLs)]>>, "}">>

\* json.Marshal of a GhostDDLInfo: the object {"schema":..,"table":..,"ddls":[..]}
Marshal(info) == <<"{", info.Schema, info.Table, info.DDLs, "}">>

\* json.Unmarshal into a zero GhostDDLInfo
Unmarshal(p) == GhostDDLInfo(p[2], p[3], p[4])

\* the token of a JSON number, where the object's "table" is no string
Numbers == {"#7"}

\* the payloads json.Unmarshal returns an error for: the text breaks off
\* inside the object (a syntax error), or "table" holds a number (a type
\* error)
Truncated(info) == <<"{", info.Schema, info.Table>>
Mistyped(info) == <<"{", info.Schema, "#7", info.DDLs, "}">>

\* json.Unmarshal returns nil for p
WellFormed(p) == Len(p) = 5 /\ p[1] = "{" /\ p[5] = "}" /\ p[3] \notin Numbers

\* what Unmarshal leaves in the zero GhostDDLInfo it was given when it
\* returns an error: nothing after a syntax error, which is found before any
\* field is set; every field but the mistyped one after a type error, which
\* is returned once the whole object has been decoded
ZeroInfo == GhostDDLInfo("", "", << >>)
UnmarshalFailed(p) ==
    IF Len(p) = 5 /\ p[1] = "{" /\ p[5] = "}"
    THEN GhostDDLInfo(p[2], "", p[4])
    ELSE ZeroInfo

\* realNameFn: the ghost table's real name
RealName(tbl) == IF tbl = "t1" THEN "rt1" ELSE "rt2"

---------------------------------------------------------------------------
(* Bookkeeping of calls *)

\* op: the call; arg: the key (and ddl) it was given; ok: it returned nil;
\* sql: the durable statements it issued; had: what it names (the key, for
\* Clear any Record and row) was there when it was called
\* err: the kind of the error returned; every error but Load's InvalidMeta
\* is an error of the durable store
Ret(op, arg, ok, sql, had) ==
    [op |-> op, arg |-> arg, ok |-> ok, sql |-> sql, had |-> had,
     err |-> IF ok THEN "nil" ELSE "DBDriverError"]

\* terror.ErrSyncerUnitOnlineDDLInvalidMeta.Delegate(err)
RetInvalidMeta(op) ==
    [Ret(op, << >>, FALSE, <<"SELECT">>, FALSE) EXCEPT !.err = "InvalidMeta"]

CauIdle ==
    [pc |-> "idle", schemaMap |-> EmptyMap, tablesMap |-> EmptyMap,
     todoS |-> {}, schema |-> "", realSchema |-> "", hasChange |-> FALSE,
     todoT |-> {}, tbl |-> "", realTbl |-> "", changedSchemas |-> << >>,
     ddls0 |-> EmptyMap, rows0 |-> EmptyMap, log |-> << >>, rerun |-> FALSE]

NoArgs == [k \in Keys |-> << >>]

\* no Save is inside its critical section
SaveIdle ==
    [pc |-> "idle", ghostSchema |-> "", ghostTable |-> "", realSchema |-> "",
     realTable |-> "", ddl |-> "", ok |-> TRUE, sql |-> << >>, had |-> FALSE,
     before |-> EmptyMap]

\* nobody has called Get
NoReader ==
    [pc |-> "idle", key |-> <<"", "">>, result |-> {}, shared |-> FALSE,
     waited |-> FALSE, before |-> {}, after |-> {}]

\* every call but a successful Save ends the run of successful Saves
Other == phase' = "other" /\ saved' = EmptyMap

\* ... a Save, Delete or Clear does not end a run of those
OtherCall ==
    /\ phase' = IF phase \in {"saves", "calls"} THEN "calls" ELSE "other"
    /\ saved' = EmptyMap

---------------------------------------------------------------------------
(* Reads *)

\* Storage.Get on a given mapping: the set holding the clone, empty for nil
GetIn(mem, ghostSchema, ghostTable) ==
    IF ghostSchema \notin DOMAIN mem THEN {}
    ELSE IF ghostTable \notin DOMAIN mem[ghostSchema] THEN {}
    ELSE {mem[ghostSchema][ghostTable]}

Get(ghostSchema, ghostTable) == GetIn(ddls, ghostSchema, ghostTable)

\* the DDLs of the cached Record of key k, << >> when there is none
DDLsOf(k) ==
    IF Get(k[1], k[2]) = {} THEN << >> ELSE ddls[k[1]][k[2]].DDLs

\* args after a call that is not a Save: nothing is known of the cached keys
Unknown(mem) ==
    [k \in Keys |-> IF GetIn(mem, k[1], k[2]) = {} THEN << >> ELSE <<"?">>]

\* the rows of this source identity
IdRows(rws) == {k \in DOMAIN rws : k[1] = SourceID}

---------------------------------------------------------------------------
(* Durable statements; each fails unless the connection works *)

\* a saveToDB that returns nil without writing the row
saveToDBNowhere(rws, ghostSchema, ghostTable, info) == [ok |-> TRUE, rows |-> rws]

\* Storage.saveToDB: REPLACE INTO ... VALUES (id, ghostSchema, ghostTable, json)
saveToDB(rws, ghostSchema, ghostTable, info) ==
    IF conn = "ok"
    THEN [ok |-> TRUE,
          rows |-> Put(rws, <<SourceID, ghostSchema, ghostTable>>, Marshal(info))]
    ELSE [ok |-> FALSE, rows |-> rws]

\* a delete that forgets the durable row
deleteCachedOnly(mem, rws, ghostSchema, ghostTable) ==
    IF ghostSchema \notin DOMAIN mem
    THEN [ok |-> TRUE, ddls |-> mem, rows |-> rws, sql |-> << >>]
    ELSE [ok |-> TRUE,
          ddls |-> [mem EXCEPT ![ghostSchema] = Del(@, ghostTable)],
          rows |-> rws,
          sql |-> << >>]

\* a delete that removes the in-memory entry before it looks at the error of
\* the statement
deleteEntryFirst(mem, rws, ghostSchema, ghostTable) ==
    IF ghostSchema \notin DOMAIN mem
    THEN [ok |-> TRUE, ddls |-> mem, rows |-> rws, sql |-> << >>]
    ELSE [ok |-> conn = "ok",
          ddls |-> [mem EXCEPT ![ghostSchema] = Del(@, ghostTable)],
          rows |-> IF conn = "ok"
                   THEN Del(rws, <<SourceID, ghostSchema, ghostTable>>)
                   ELSE rws,
          sql |-> <<"DELETE">>]

\* Storage.delete: DELETE the row, then delete the in-memory entry
delete(mem, rws, ghostSchema, ghostTable) ==
    IF ghostSchema \notin DOMAIN mem
    THEN [ok |-> TRUE, ddls |-> mem, rows |-> rws, sql |-> << >>]
    ELSE IF conn # "ok"
    THEN [ok |-> FALSE, ddls |-> mem, rows |-> rws, sql |-> <<"DELETE">>]
    ELSE [ok |-> TRUE,
          ddls |-> [mem EXCEPT ![ghostSchema] = Del(@, ghostTable)],
          rows |-> Del(rws, <<SourceID, ghostSchema, ghostTable>>),
          sql |-> <<"DELETE">>]

\* the loop of Storage.Load over the rows in P
LoadRows(mem, rws, P) ==
    LET ss == (DOMAIN mem) \cup {k[2] : k \in P}
        ts(s) == (DOMAIN Lookup(mem, s, EmptyMap)) \cup {k[3] : k \in {q \in P : q[2] = s}}
    IN [s \in ss |->
          [t \in ts(s) |->
              IF <<SourceID, s, t>> \in P
              THEN Unmarshal(rws[<<SourceID, s, t>>])
              ELSE mem[s][t]]]

\* a Clear whose statement matches no row
clearRowsOfNobody(rws) == rws

\* a Clear whose statement has no WHERE clause
clearRowsOfEverybody(rws) == EmptyMap

\* Storage.Clear's statement: DELETE ... WHERE id = ?
clearRows(rws) == [k \in (DOMAIN rws) \ IdRows(rws) |-> rws[k]]

---------------------------------------------------------------------------
(* Save, Delete, Clear *)

\* a Save that never takes a statement for a repeat
isRepeatNever(info, ddl) == FALSE

\* a Save that looks for the statement in the whole history
isRepeatAnywhere(info, ddl) ==
    \E i \in 1..Len(info.DDLs) : info.DDLs[i] = ddl

\* Storage.Save's check against the most recently recorded statement
isRepeat(info, ddl) ==
    Len(info.DDLs) # 0 /\ info.DDLs[Len(info.DDLs)] = ddl

\* whether the clone r still shares the backing array of its Record's DDLs
\* after a Save on key: append keeps the array when its capacity suffices and
\* allocates a new one when it does not
StillShared(r, key, appended) ==
    IF r.shared /\ r.key = key /\ appended THEN {TRUE, FALSE} ELSE {r.shared}

Save(ghostSchema, ghostTable, realSchema, realTable, ddl) ==
    /\ lock = "free"
    /\ rd.pc # "reading"
    /\ nSaves < MaxSaves
    /\ LET key == <<ghostSchema, ghostTable>>
           mSchema == Lookup(ddls, ghostSchema, EmptyMap)
           info == Lookup(mSchema, ghostTable,
                          GhostDDLInfo(realSchema, realTable, << >>))
           rep == isRepeat(info, ddl)
           info2 == IF rep THEN info ELSE [info EXCEPT !.DDLs = Append(@, ddl)]
           res == IF rep THEN [ok |-> TRUE, rows |-> rows]
                  ELSE saveToDB(rows, ghostSchema, ghostTable, info2)
       IN /\ ddls' = Put(ddls, ghostSchema, Put(mSchema, ghostTable, info2))
          /\ rows' = res.rows
          /\ ret' = Ret("Save", <<ghostSchema, ghostTable, ddl>>, res.ok, IF rep THEN << >> ELSE <<"REPLACE">>,
                        Get(ghostSchema, ghostTable) # {})
          /\ args' = [args EXCEPT ![key] =
                        IF res.ok /\ @ # <<"?">> THEN Append(@, ddl) ELSE <<"?">>]
          /\ IF res.ok /\ phase = "saves"
             THEN phase' = phase /\ saved' = Put(saved, key, info2)
             ELSE OtherCall
          /\ \E sh \in StillShared(rd, key, ~rep) : rd' = [rd EXCEPT !.shared = sh]
    /\ nSaves' = nSaves + 1
    /\ cau' = CauIdle
    /\ UNCHANGED <<conn, lock, nCau, sv>>

Delete(ghostSchema, ghostTable) ==
    /\ lock = "free"
    /\ LET res == delete(ddls, rows, ghostSchema, ghostTable)
       IN /\ ddls' = res.ddls
          /\ rows' = res.rows
          /\ ret' = Ret("Delete", <<ghostSchema, ghostTable>>, res.ok, res.sql, Get(ghostSchema, ghostTable) # {})
          /\ args' = IF res.ok
                     THEN [args EXCEPT ![<<ghostSchema, ghostTable>>] = << >>]
                     ELSE args
    /\ OtherCall
    /\ cau' = CauIdle
    /\ UNCHANGED <<conn, lock, nSaves, nCau, sv, rd>>

Clear ==
    /\ lock = "free"
    /\ IF conn = "ok"
       THEN /\ rows' = clearRows(rows)
            /\ ddls' = EmptyMap
            /\ args' = NoArgs
       ELSE UNCHANGED <<rows, ddls, args>>
    /\ ret' = Ret("Clear", << >>, conn = "ok", <<"DELETE">>,
                  ddls # EmptyMap /\ IdRows(rows) # {})
    /\ OtherCall
    /\ cau' = CauIdle
    /\ UNCHANGED <<conn, lock, nSaves, nCau, sv, rd>>

---------------------------------------------------------------------------
(* Save one statement at a time, with a Get called from another goroutine *)

\* what Get returns from the mapping as it stands outside every critical
\* section of Save
Stable(ghostSchema, ghostTable) ==
    GetIn(IF lock = "Save" THEN sv.before ELSE ddls, ghostSchema, ghostTable)

\* s.Lock() and the parameters; a writer waits for the readers to leave
SaveLock(ghostSchema, ghostTable, realSchema, realTable, ddl) ==
    /\ lock = "free"
    /\ rd.pc # "reading"
    /\ nSaves < MaxSaves
    /\ nSaves' = nSaves + 1
    /\ lock' = "Save"
    /\ sv' = [SaveIdle EXCEPT !.pc = "schema",
                              !.ghostSchema = ghostSchema,
                              !.ghostTable = ghostTable,
                              !.realSchema = realSchema,
                              !.realTable = realTable,
                              !.ddl = ddl,
                              !.had = Get(ghostSchema, ghostTable) # {},
                              !.before = ddls]
    /\ ret' = Ret("running", << >>, FALSE, << >>, FALSE)
    /\ args' = Unknown(ddls)
    /\ Other
    /\ cau' = CauIdle
    /\ UNCHANGED <<ddls, rows, conn, nCau, rd>>

\* mSchema, ok := s.ddls[ghostSchema]; the schema entry is made if absent
SaveSchema ==
    /\ sv.pc = "schema"
    /\ ddls' = IF sv.ghostSchema \in DOMAIN ddls THEN ddls
               ELSE Put(ddls, sv.ghostSchema, EmptyMap)
    /\ sv' = [sv EXCEPT !.pc = "info"]
    /\ UNCHANGED <<rows, conn, lock, cau, ret, nSaves, nCau, args, saved, phase, rd>>

\* info, ok := mSchema[ghostTable]; the Record is made, without DDLs, if absent
SaveInfo ==
    /\ sv.pc = "info"
    /\ ddls' = IF sv.ghostTable \in DOMAIN ddls[sv.ghostSchema] THEN ddls
               ELSE [ddls EXCEPT ![sv.ghostSchema] =
                        Put(@, sv.ghostTable,
                            GhostDDLInfo(sv.realSchema, sv.realTable, << >>))]
    /\ sv' = [sv EXCEPT !.pc = "append"]
    /\ UNCHANGED <<rows, conn, lock, cau, ret, nSaves, nCau, args, saved, phase, rd>>

\* the check against the last statement, then the append
SaveAppend ==
    /\ sv.pc = "append"
    /\ LET info == ddls[sv.ghostSchema][sv.ghostTable]
       IN IF isRepeat(info, sv.ddl)
          THEN /\ sv' = [sv EXCEPT !.pc = "unlock", !.ok = TRUE]
               /\ ddls' = ddls
          ELSE /\ sv' = [sv EXCEPT !.pc = "persist"]
               /\ ddls' = [ddls EXCEPT ![sv.ghostSchema][sv.ghostTable].DDLs =
                              Append(@, sv.ddl)]
    /\ UNCHANGED <<rows, conn, lock, cau, ret, nSaves, nCau, args, saved, phase, rd>>

\* s.saveToDB(tctx, ghostSchema, ghostTable, info)
SavePersist ==
    /\ sv.pc = "persist"
    /\ LET res == saveToDB(rows, sv.ghostSchema, sv.ghostTable,
                           ddls[sv.ghostSchema][sv.ghostTable])
       IN /\ rows' = res.rows
          /\ sv' = [sv EXCEPT !.pc = "unlock", !.ok = res.ok, !.sql = <<"REPLACE">>]
    /\ UNCHANGED <<ddls, conn, lock, cau, ret, nSaves, nCau, args, saved, phase, rd>>

\* the return and the deferred s.Unlock(), which lets a waiting reader in
SaveUnlock ==
    /\ sv.pc = "unlock"
    /\ lock' = "free"
    /\ ret' = Ret("Save", <<sv.ghostSchema, sv.ghostTable, sv.ddl>>, sv.ok, sv.sql, sv.had)
    /\ sv' = SaveIdle
    /\ rd' = IF rd.pc = "waiting" THEN [rd EXCEPT !.pc = "reading"] ELSE rd
    /\ args' = Unknown(ddls)
    /\ UNCHANGED <<ddls, rows, conn, cau, nSaves, nCau, saved, phase>>

\* a Get that does not wait for the writer
canRLockAlways == TRUE

\* s.RLock() returns at once unless a writer holds the lock
canRLock == lock = "free"

\* Get is called: s.RLock()
GetCall(ghostSchema, ghostTable) ==
    /\ rd.pc \in {"idle", "done"}
    /\ rd' = [NoReader EXCEPT !.pc = IF canRLock THEN "reading" ELSE "waiting",
                              !.key = <<ghostSchema, ghostTable>>,
                              !.waited = ~canRLock,
                              !.before = Stable(ghostSchema, ghostTable)]
    /\ UNCHANGED <<ddls, rows, conn, lock, cau, ret, nSaves, nCau, args, saved, phase, sv>>

\* the two lookups, the clone, the deferred s.RUnlock() and the return; the
\* clone's DDLs is the Record's slice: same backing array
GetReturn ==
    /\ rd.pc = "reading"
    /\ rd' = [rd EXCEPT !.pc = "done",
                        !.result = Get(rd.key[1], rd.key[2]),
                        !.shared = Get(rd.key[1], rd.key[2]) # {},
                        !.after = Stable(rd.key[1], rd.key[2])]
    /\ UNCHANGED <<ddls, rows, conn, lock, cau, ret, nSaves, nCau, args, saved, phase, sv>>

---------------------------------------------------------------------------
(* What the caller of Get does with the clone: *clone = *mSchema[ghostTable]
   copies Schema, Table and the slice header of DDLs, not the elements *)

\* the store's Record still uses the backing array of the clone's DDLs
Aliased ==
    /\ rd.pc = "done"
    /\ rd.shared
    /\ Get(rd.key[1], rd.key[2]) # {}

\* clone.Schema = x or clone.Table = x
CallerSetField(field, x) ==
    /\ rd.pc = "done"
    /\ \E info \in rd.result :
          rd' = [rd EXCEPT !.result = {[info EXCEPT ![field] = x]}]
    /\ UNCHANGED <<ddls, rows, conn, lock, cau, ret, nSaves, nCau, args, saved, phase, sv>>

\* clone.DDLs[i] = x: the element is written in the backing array
CallerSetDDL(i, x) ==
    /\ rd.pc = "done"
    /\ \E info \in rd.result :
          /\ i \in 1..Len(info.DDLs)
          /\ rd' = [rd EXCEPT !.result = {[info EXCEPT !.DDLs[i] = x]}]
          /\ ddls' = IF Aliased /\ i <= Len(DDLsOf(rd.key))
                     THEN [ddls EXCEPT ![rd.key[1]][rd.key[2]].DDLs[i] = x]
                     ELSE ddls
    /\ UNCHANGED <<rows, conn, lock, cau, ret, nSaves, nCau, args, saved, phase, sv>>

\* clone.DDLs = append(clone.DDLs, x): in the backing array when its capacity
\* suffices (it does when the store's Record is longer), else in a new one
CallerAppend(x) ==
    /\ rd.pc = "done"
    /\ \E info \in rd.result :
          LET n == Len(info.DDLs)
              longer == Aliased /\ n < Len(DDLsOf(rd.key))
          IN /\ n < MaxCloneLen
             /\ \E sh \in (IF longer THEN {TRUE}
                           ELSE IF Aliased THEN {TRUE, FALSE} ELSE {FALSE}) :
                   rd' = [rd EXCEPT !.result = {[info EXCEPT !.DDLs = Append(@, x)]},
                                    !.shared = sh]
             /\ ddls' = IF longer
                        THEN [ddls EXCEPT ![rd.key[1]][rd.key[2]].DDLs[n + 1] = x]
                        ELSE ddls
    /\ UNCHANGED <<rows, conn, lock, cau, ret, nSaves, nCau, args, saved, phase, sv>>

---------------------------------------------------------------------------
(* The durable statements of a second store, constructed with cfg.SourceID =
   OtherID on the same backing table; it has a connection of its own *)

\* the rows of one source identity
RowsOf(rws, id) == [k \in {q \in DOMAIN rws : q[1] = id} |-> rws[k]]

\* its Save: REPLACE INTO ... VALUES (id, ghostSchema, ghostTable, json)
OtherSave(ghostSchema, ghostTable, realSchema, realTable, ddl) ==
    /\ LET rk == <<OtherID, ghostSchema, ghostTable>>
           info == IF rk \in DOMAIN rows THEN Unmarshal(rows[rk])
                   ELSE GhostDDLInfo(realSchema, realTable, << >>)
       IN /\ ~isRepeat(info, ddl)
          /\ rows' = Put(rows, rk, Marshal([info EXCEPT !.DDLs = Append(@, ddl)]))
    /\ UNCHANGED <<ddls, conn, lock, cau, ret, nSaves, nCau, args, saved, phase, sv, rd>>

\* its Delete: DELETE ... WHERE id = ? and ghost_schema = ? and ghost_table = ?
OtherDelete(ghostSchema, ghostTable) ==
    /\ <<OtherID, ghostSchema, ghostTable>> \in DOMAIN rows
    /\ rows' = Del(rows, <<OtherID, ghostSchema, ghostTable>>)
    /\ UNCHANGED <<ddls, conn, lock, cau, ret, nSaves, nCau, args, saved, phase, sv, rd>>

\* its Clear: DELETE ... WHERE id = ?
OtherClear ==
    /\ RowsOf(rows, OtherID) # EmptyMap
    /\ rows' = [k \in {q \in DOMAIN rows : q[1] # OtherID} |-> rows[k]]
    /\ UNCHANGED <<ddls, conn, lock, cau, ret, nSaves, nCau, args, saved, phase, sv, rd>>

---------------------------------------------------------------------------
(* Construction, Init, Load, the connection *)

\* the rows of this source identity whose payload does not deserialize
BadRows(rws) == {k \in IdRows(rws) : ~WellFormed(rws[k])}

\* mSchema[table] = &GhostDDLInfo{}; err = json.Unmarshal(ddls, mSchema[table]):
\* the mapping when Load returns at the row k that does not deserialize
afterBadRow(mem, rws, k) ==
    Put(mem, k[2], Put(Lookup(mem, k[2], EmptyMap), k[3], UnmarshalFailed(rws[k])))

\* Storage.Load called as op on the mapping mem: the query fails, or every
\* row is read, or the connection breaks after the rows in P were read, or
\* a row does not deserialize after the rows in P were read (the query has
\* no ORDER BY: any rows may come before it)
DoLoad(op, mem, c) ==
    \/ /\ c = "ok"
       /\ BadRows(rows) = {}
       /\ ddls' = LoadRows(mem, rows, IdRows(rows))
       /\ conn' = "ok"
       /\ ret' = Ret(op, << >>, TRUE, <<"SELECT">>, FALSE)
       /\ IF op = "Init" /\ phase = "saves"
          THEN phase' = "loaded" /\ saved' = saved
          ELSE Other
    \/ /\ c = "ok"
       /\ \E P \in SUBSET (IdRows(rows) \ BadRows(rows)) :
            /\ P # IdRows(rows)
            /\ ddls' = LoadRows(mem, rows, P)
       /\ conn' = "broken"
       /\ ret' = Ret(op, << >>, FALSE, <<"SELECT">>, FALSE)
       /\ Other
    \/ /\ c = "ok"
       /\ \E k \in BadRows(rows), P \in SUBSET (IdRows(rows) \ BadRows(rows)) :
            ddls' = afterBadRow(LoadRows(mem, rows, P), rows, k)
       /\ conn' = "ok"
       /\ ret' = RetInvalidMeta(op)
       /\ Other
    \/ /\ c # "ok"
       /\ ddls' = mem
       /\ conn' = c
       /\ ret' = Ret(op, << >>, FALSE, <<"SELECT">>, FALSE)
       /\ Other

Load ==
    /\ lock = "free"
    /\ DoLoad("Load", ddls, conn)
    /\ args' = Unknown(ddls')
    /\ cau' = CauIdle
    /\ UNCHANGED <<rows, lock, nSaves, nCau, sv, rd>>

\* the process stops (at any point, whatever call is in progress) and comes
\* up again: NewOnlineDDLStorage, then Storage.Init (CreateConns, prepare,
\* Load)
StorageInit ==
    /\ lock' = "free"
    /\ cau' = CauIdle
    /\ \/ DoLoad("Init", EmptyMap, "ok")
       \/ DoLoad("Init", EmptyMap, "broken")
    /\ args' = Unknown(ddls')
    /\ UNCHANGED <<rows, nSaves, nCau, sv, rd>>

\* Storage.ResetConn: no lock is taken
ResetConn ==
    /\ conn \in {"ok", "broken"}
    /\ conn' = "ok"
    /\ UNCHANGED <<ddls, rows, lock, cau, ret, nSaves, nCau, args, saved, phase, sv, rd>>

\* the connection to the durable store fails
BreakConn ==
    /\ conn = "ok"
    /\ conn' = "broken"
    /\ UNCHANGED <<ddls, rows, lock, cau, ret, nSaves, nCau, args, saved, phase, sv, rd>>

Close ==
    /\ lock = "free"
    /\ conn' = "closed"
    /\ ret' = Ret("Close", << >>, TRUE, << >>, FALSE)
    /\ Other
    /\ cau' = CauIdle
    /\ UNCHANGED <<ddls, rows, lock, nSaves, nCau, args, sv, rd>>

---------------------------------------------------------------------------
(* CheckAndUpdate; the loops advance one durable statement at a time *)

\* the schema map and the per-schema table maps of a call
Renames ==
    { <<EmptyMap, EmptyMap>>,
      <<"g1" :> "g2", EmptyMap>>,
      <<EmptyMap, "g1" :> ("t1" :> "t2")>>,
      <<"g1" :> "g2", "g1" :> ("t1" :> "t2")>>,
      <<"g1" :> "g1", EmptyMap>>,
      <<EmptyMap, "g1" :> ("t1" :> "t1")>>,
      <<("g1" :> "g2") @@ ("g2" :> "g3"), EmptyMap>> }

\* the call returns: the deferred Unlock runs
CauReturn(ok) ==
    /\ lock' = "free"
    /\ ret' = Ret("CheckAndUpdate", << >>, ok, << >>, FALSE)

\* the last loop: move each changed schema's table map to its new key
RECURSIVE Rekey(_, _, _)
Rekey(mem, schemaMap, changedSchemas) ==
    IF changedSchemas = << >> THEN mem
    ELSE LET schema == Head(changedSchemas)
             ddl == Lookup(mem, schema, EmptyMap)
         IN Rekey(Del(Put(mem, schemaMap[schema], ddl), schema),
                  schemaMap, Tail(changedSchemas))

\* the sequences that hold each element of S once
Perms(S) ==
    {f \in [1..Cardinality(S) -> S] :
        \A i \in 1..Cardinality(S), j \in 1..Cardinality(S) : f[i] = f[j] => i = j}

\* the orders in which range may visit the schemas of mem and, within each
\* schema, its tables
Orders(mem) ==
    LET seqs == UNION {Perms(DOMAIN mem[s]) : s \in DOMAIN mem}
    IN {[schemas |-> so, tables |-> to] :
           so \in Perms(DOMAIN mem),
           to \in {f \in [DOMAIN mem -> seqs] :
                      \A s \in DOMAIN mem : f[s] \in Perms(DOMAIN mem[s])}}

\* the inner loop over the tables tbls of schema, every statement succeeding;
\* st is the mapping and the rows
RECURSIVE CauTablesIn(_, _, _, _, _)
CauTablesIn(st, schema, schemaMap, tablesMap, tbls) ==
    IF tbls = << >> THEN st
    ELSE LET tbl == Head(tbls)
             hasChange == schema \in DOMAIN schemaMap
             realSchema == IF hasChange THEN schemaMap[schema] ELSE schema
             tblMap == Lookup(tablesMap, schema, EmptyMap)
             inMap == tbl \in DOMAIN tblMap
             realTbl == IF inMap THEN tblMap[tbl] ELSE tbl
             tableChange == IF inMap THEN TRUE ELSE hasChange
             ddlInfos == [st.ddls[schema][tbl] EXCEPT !.Table = RealName(realTbl)]
             written == Put(st.rows, <<SourceID, realSchema, realTbl>>, Marshal(ddlInfos))
             next == IF ~tableChange THEN st
                     ELSE [ddls |-> [st.ddls EXCEPT ![schema] = Del(@, tbl)],
                           rows |-> Del(written, <<SourceID, schema, tbl>>)]
         IN CauTablesIn(next, schema, schemaMap, tablesMap, Tail(tbls))

\* the outer loop over schemas
RECURSIVE CauSchemasIn(_, _, _, _, _)
CauSchemasIn(st, schemaMap, tablesMap, order, schemas) ==
    IF schemas = << >> THEN st
    ELSE CauSchemasIn(CauTablesIn(st, Head(schemas), schemaMap, tablesMap,
                                  order.tables[Head(schemas)]),
                      schemaMap, tablesMap, order, Tail(schemas))

\* a whole call of CheckAndUpdate on the mapping mem and the rows rws, every
\* statement succeeding, range visiting schemas and tables in this order
CheckAndUpdateIn(mem, rws, schemaMap, tablesMap, order) ==
    LET st == CauSchemasIn([ddls |-> mem, rows |-> rws], schemaMap, tablesMap,
                           order, order.schemas)
        changedSchemas == SelectSeq(order.schemas, LAMBDA s : s \in DOMAIN schemaMap)
    IN [ddls |-> Rekey(st.ddls, schemaMap, changedSchemas), rows |-> st.rows]

\* entry: Lock, changedSchemas := empty, range over s.ddls starts
CheckAndUpdate(schemaMap, tablesMap) ==
    /\ lock = "free"
    /\ nCau < MaxReconciles
    /\ nCau' = nCau + 1
    /\ lock' = "CheckAndUpdate"
    /\ cau' = [CauIdle EXCEPT !.pc = "schemas",
                              !.schemaMap = schemaMap,
                              !.tablesMap = tablesMap,
                              !.todoS = DOMAIN ddls,
                              !.ddls0 = ddls,
                              !.rows0 = rows]
    /\ ret' = Ret("running", << >>, FALSE, << >>, FALSE)
    /\ args' = Unknown(ddls)
    /\ Other
    /\ UNCHANGED <<ddls, rows, conn, nSaves, sv, rd>>

\* the caller's retry: CheckAndUpdate is called again, with the maps of the
\* call that returned the error, once the durable store works
CauRetry ==
    /\ lock = "free"
    /\ ret.op = "CheckAndUpdate"
    /\ ~ret.ok
    /\ conn = "ok"
    /\ lock' = "CheckAndUpdate"
    /\ cau' = [CauIdle EXCEPT !.pc = "schemas",
                              !.schemaMap = cau.schemaMap,
                              !.tablesMap = cau.tablesMap,
                              !.todoS = DOMAIN ddls,
                              !.ddls0 = cau.ddls0,
                              !.rows0 = cau.rows0,
                              !.rerun = TRUE]
    /\ ret' = Ret("running", << >>, FALSE, << >>, FALSE)
    /\ UNCHANGED <<ddls, rows, conn, nSaves, nCau, args, saved, phase, sv, rd>>

\* the outer loop takes the next schema, in any order
CauSchema ==
    /\ cau.pc = "schemas"
    /\ \E schema \in cau.todoS :
          LET hasChange == schema \in DOMAIN cau.schemaMap
              realSchema == IF hasChange THEN cau.schemaMap[schema] ELSE schema
              tbls == DOMAIN ddls[schema]
          IN cau' = [cau EXCEPT
                        !.todoS = @ \ {schema},
                        !.schema = schema,
                        !.realSchema = realSchema,
                        !.hasChange = hasChange,
                        !.changedSchemas =
                            IF hasChange THEN Append(@, schema) ELSE @,
                        !.todoT = tbls,
                        !.pc = IF tbls = {} THEN "schemas" ELSE "tables"]
    /\ UNCHANGED <<ddls, rows, conn, lock, ret, nSaves, nCau, args, saved, phase, sv, rd>>

\* a loop that goes on to the delete whatever the write returned
writeFailedIgnored(res) == FALSE

\* err := s.saveToDB(...); if err != nil { return err }
writeFailed(res) == ~res.ok

\* the inner loop takes the next table, sets Table and writes the new row
CauTable ==
    /\ cau.pc = "tables"
    /\ \E tbl \in cau.todoT :
          LET tblMap == Lookup(cau.tablesMap, cau.schema, EmptyMap)
              inMap == tbl \in DOMAIN tblMap
              realTbl == IF inMap THEN tblMap[tbl] ELSE tbl
              tableChange == IF inMap THEN TRUE ELSE cau.hasChange
              ddlInfos == [ddls[cau.schema][tbl] EXCEPT !.Table = RealName(realTbl)]
              res == saveToDB(rows, cau.realSchema, realTbl, ddlInfos)
              rest == cau.todoT \ {tbl}
          IN IF ~tableChange
             THEN /\ cau' = [cau EXCEPT !.todoT = rest,
                                 !.pc = IF rest = {} THEN "schemas" ELSE "tables"]
                  /\ UNCHANGED <<ddls, rows, lock, ret>>
             ELSE /\ ddls' = [ddls EXCEPT ![cau.schema][tbl] = ddlInfos]
                  /\ rows' = res.rows
                  /\ IF ~writeFailed(res)
                     THEN /\ cau' = [cau EXCEPT !.tbl = tbl, !.realTbl = realTbl,
                                         !.log = Append(@, <<"REPLACE", cau.realSchema, realTbl, res.ok>>),
                                         !.pc = "delete"]
                          /\ UNCHANGED <<lock, ret>>
                     ELSE /\ cau' = [cau EXCEPT !.pc = "idle",
                                         !.log = Append(@, <<"REPLACE", cau.realSchema, realTbl, res.ok>>)]
                          /\ CauReturn(FALSE)
    /\ args' = Unknown(ddls')
    /\ UNCHANGED <<conn, nSaves, nCau, saved, phase, sv, rd>>

\* ... then deletes the old row and the old in-memory entry
CauDelete ==
    /\ cau.pc = "delete"
    /\ LET res == delete(ddls, rows, cau.schema, cau.tbl)
           rest == cau.todoT \ {cau.tbl}
       IN /\ ddls' = res.ddls
          /\ rows' = res.rows
          /\ IF res.ok
             THEN /\ cau' = [cau EXCEPT !.todoT = rest,
                                 !.log = Append(@, <<"DELETE", cau.schema, cau.tbl, res.ok>>),
                                 !.pc = IF rest = {} THEN "schemas" ELSE "tables"]
                  /\ UNCHANGED <<lock, ret>>
             ELSE /\ cau' = [cau EXCEPT !.pc = "idle",
                                 !.log = Append(@, <<"DELETE", cau.schema, cau.tbl, res.ok>>)]
                  /\ CauReturn(FALSE)
    /\ args' = Unknown(ddls')
    /\ UNCHANGED <<conn, nSaves, nCau, saved, phase, sv, rd>>

\* both loops are done: re-key the mapping and return nil
CauRekey ==
    /\ cau.pc = "schemas"
    /\ cau.todoS = {}
    /\ ddls' = Rekey(ddls, cau.schemaMap, cau.changedSchemas)
    /\ cau' = [cau EXCEPT !.pc = "idle"]
    /\ CauReturn(TRUE)
    /\ args' = Unknown(ddls')
    /\ UNCHANGED <<rows, conn, nSaves, nCau, saved, phase, sv, rd>>

---------------------------------------------------------------------------
(* The store after NewOnlineDDLStorage and Init on an empty backing table *)

Init ==
    /\ ddls = EmptyMap
    /\ rows = EmptyMap
    /\ conn = "ok"
    /\ lock = "free"
    /\ cau = CauIdle
    /\ ret = Ret("Init", << >>, TRUE, <<"SELECT">>, FALSE)
    /\ nSaves = 0
    /\ nCau = 0
    /\ args = NoArgs
    /\ saved = EmptyMap
    /\ phase = "saves"
    /\ sv = SaveIdle
    /\ rd = NoReader

\* the store used without reconciliation
Next ==
    \/ \E k \in SaveKeys, rs \in RealSchemas, rt \in RealTables, ddl \in DDLTexts :
          Save(k[1], k[2], rs, rt, ddl)
    \/ \E gs \in Schemas, gt \in Tables : Delete(gs, gt)
    \/ Clear
    \/ Load
    \/ StorageInit
    \/ ResetConn
    \/ BreakConn
    \/ Close

Spec == Init /\ [][Next]_vars

\* Saves, then reconciliation of what they cached
NextReconcile ==
    \/ \E k \in SaveKeys, rs \in RealSchemas, rt \in RealTables, ddl \in DDLTexts :
          Save(k[1], k[2], rs, rt, ddl)
    \/ \E r \in Renames : CheckAndUpdate(r[1], r[2])
    \/ CauSchema
    \/ CauTable
    \/ CauDelete
    \/ CauRekey
    \/ StorageInit
    \/ ResetConn
    \/ BreakConn
    \/ Close

SpecReconcile == Init /\ [][NextReconcile]_vars

\* the statement texts saved before a reconciliation with retries
MigrateTexts == {"d1"}

\* the statement saved under each key before a reconciliation with retries:
\* the Records differ, so a row written under the wrong key shows
MigrateTextOf(k) == IF k = <<"g1", "t1">> THEN "d1" ELSE "d2"

\* Saves, then reconciliation, retried by the caller when it fails
NextMigrate ==
    \/ \E k \in SaveKeys, rs \in RealSchemas, rt \in RealTables :
          Save(k[1], k[2], rs, rt, MigrateTextOf(k))
    \/ \E r \in Renames : CheckAndUpdate(r[1], r[2])
    \/ CauRetry
    \/ CauSchema
    \/ CauTable
    \/ CauDelete
    \/ CauRekey
    \/ ResetConn
    \/ BreakConn

SpecMigrate == Init /\ [][NextMigrate]_vars

\* the payload of a row of this source identity is damaged in the durable
\* store: cut short, or with a number where the table name was
Corrupt(k) ==
    /\ k \in IdRows(rows) \ BadRows(rows)
    /\ \E p \in {Truncated(Unmarshal(rows[k])), Mistyped(Unmarshal(rows[k]))} :
          rows' = [rows EXCEPT ![k] = p]
    /\ Other
    /\ UNCHANGED <<ddls, conn, lock, cau, ret, nSaves, nCau, args, sv, rd>>

\* Saves, damaged rows, and Loads by this store or by a new one
NextCorrupt ==
    \/ \E k \in SaveKeys, rs \in RealSchemas, rt \in RealTables, ddl \in DDLTexts :
          Save(k[1], k[2], rs, rt, ddl)
    \/ \E k \in SaveKeys : Corrupt(<<SourceID, k[1], k[2]>>)
    \/ Load
    \/ StorageInit
    \/ ResetConn
    \/ BreakConn

SpecCorrupt == Init /\ [][NextCorrupt]_vars

\* the keys both stores use, and the renames of this store
SharedKeys == {<<"g1", "t1">>, <<"g1", "t2">>}
SourceRenames ==
    { <<"g1" :> "g2", EmptyMap>>,
      <<EmptyMap, "g1" :> ("t1" :> "t2")>> }

\* a statement of the second store
OtherStore ==
    \/ \E k \in SharedKeys, rs \in RealSchemas, rt \in RealTables, ddl \in OtherTexts :
          OtherSave(k[1], k[2], rs, rt, ddl)
    \/ \E k \in SharedKeys : OtherDelete(k[1], k[2])
    \/ OtherClear

\* two stores of different source identities on one backing table, each
\* with a working connection
NextSources ==
    \/ \E k \in SharedKeys, rs \in RealSchemas, rt \in RealTables, ddl \in MigrateTexts :
          Save(k[1], k[2], rs, rt, ddl)
    \/ \E k \in SharedKeys : Delete(k[1], k[2])
    \/ Clear
    \/ Load
    \/ \E r \in SourceRenames : CheckAndUpdate(r[1], r[2])
    \/ CauSchema
    \/ CauTable
    \/ CauDelete
    \/ CauRekey
    \/ \E k \in SharedKeys, rs \in RealSchemas, rt \in RealTables, ddl \in OtherTexts :
          OtherSave(k[1], k[2], rs, rt, ddl)
    \/ \E k \in SharedKeys : OtherDelete(k[1], k[2])
    \/ OtherClear

SpecSources == Init /\ [][NextSources]_vars

\* the keys Get is called with
GetKeys == {<<"g1", "t1">>, <<"g2", "t1">>}

\* what the caller of Get does to the clone
Caller ==
    \/ \E field \in {"Schema", "Table"}, x \in CallerTexts : CallerSetField(field, x)
    \/ \E i \in 1..MaxCloneLen, x \in CallerTexts : CallerSetDDL(i, x)
    \/ \E x \in CallerTexts : CallerAppend(x)

\* Saves and Gets from one goroutine, which edits the Records Get gave it
NextCaller ==
    \/ \E k \in SaveKeys, rs \in RealSchemas, rt \in RealTables, ddl \in DDLTexts :
          Save(k[1], k[2], rs, rt, ddl)
    \/ \E k \in GetKeys : GetCall(k[1], k[2])
    \/ GetReturn
    \/ \E field \in {"Schema", "Table"}, x \in CallerTexts : CallerSetField(field, x)
    \/ \E i \in 1..MaxCloneLen, x \in CallerTexts : CallerSetDDL(i, x)
    \/ \E x \in CallerTexts : CallerAppend(x)

SpecCaller == Init /\ [][NextCaller]_vars

\* a Save in steps
SaveStep ==
    \/ SaveSchema
    \/ SaveInfo
    \/ SaveAppend
    \/ SavePersist
    \/ SaveUnlock

\* Saves from one goroutine, Gets from another
NextConcurrent ==
    \/ \E k \in SaveKeys, rs \in RealSchemas, rt \in RealTables, ddl \in DDLTexts :
          SaveLock(k[1], k[2], rs, rt, ddl)
    \/ SaveSchema
    \/ SaveInfo
    \/ SaveAppend
    \/ SavePersist
    \/ SaveUnlock
    \/ \E k \in GetKeys : GetCall(k[1], k[2])
    \/ GetReturn
    \/ ResetConn
    \/ BreakConn

\* every call that has begun goes on to its return
SpecConcurrent ==
    Init /\ [][NextConcurrent]_vars /\ WF_vars(SaveStep) /\ WF_vars(GetReturn)

---------------------------------------------------------------------------
(* Properties *)

RowKey(k) == <<SourceID, k[1], k[2]>>

\* the two layers hold the same Records under the same keys
LayersAgree ==
    \A k \in Keys :
        LET m == Get(k[1], k[2])
        IN /\ (m = {}) <=> (RowKey(k) \notin DOMAIN rows)
           /\ \A info \in m : rows[RowKey(k)] = Marshal(info)

\* C1: whenever Save, Delete or Clear returns success after a sequence of
\* Save/Delete/Clear calls (earlier ones may have failed), every key has the
\* same Record in the in-memory mapping and in the durable rows.
C1_SuccessImpliesLayersAgree ==
    (phase \in {"saves", "calls"} /\ ret.op \in {"Save", "Delete", "Clear"} /\ ret.ok)
        => LayersAgree

\* the DDLs Get returns from a mapping, << >> for nil
DDLsIn(mem, ghostSchema, ghostTable) ==
    IF GetIn(mem, ghostSchema, ghostTable) = {} THEN << >>
    ELSE mem[ghostSchema][ghostTable].DDLs

\* the last call was a successful CheckAndUpdate with these maps
Reconciled(schemaMap, tablesMap) ==
    /\ ret.op = "CheckAndUpdate"
    /\ ret.ok
    /\ cau.schemaMap = schemaMap
    /\ cau.tablesMap = tablesMap

\* C2: after a successful CheckAndUpdate with schema map {g1 -> g2} and an
\* empty table map, a Record that was cached under g1/t1 is returned by
\* Get(g2, t1) with the DDLs it had, and Get(g1, t1) returns not found.
C2_SchemaRenameKeepsHistory ==
    \A g1 \in Schemas, g2 \in Schemas, t1 \in Tables :
        (/\ g1 # g2
         /\ Reconciled(g1 :> g2, EmptyMap)
         /\ GetIn(cau.ddls0, g1, t1) # {})
        => /\ Get(g2, t1) # {}
           /\ DDLsIn(ddls, g2, t1) = DDLsIn(cau.ddls0, g1, t1)
           /\ Get(g1, t1) = {}

\* C3: after a successful CheckAndUpdate with an empty schema map and table
\* map {g1: {t1 -> t2}}, a Record that was cached under g1/t1 is returned by
\* Get(g1, t2) with the DDLs it had, and Get(g1, t1) returns not found.
C3_TableRenameKeepsHistory ==
    \A g1 \in Schemas, t1 \in Tables, t2 \in Tables :
        (/\ t1 # t2
         /\ Reconciled(EmptyMap, g1 :> (t1 :> t2))
         /\ GetIn(cau.ddls0, g1, t1) # {})
        => /\ Get(g1, t2) # {}
           /\ DDLsIn(ddls, g1, t2) = DDLsIn(cau.ddls0, g1, t1)
           /\ Get(g1, t1) = {}

\* the key a call's maps send the key <<schema, table>> to
Target(schemaMap, tablesMap, k) ==
    LET tblMap == Lookup(tablesMap, k[1], EmptyMap)
    IN <<Lookup(schemaMap, k[1], k[1]), Lookup(tblMap, k[2], k[2])>>

\* C4: in every state during CheckAndUpdate (so after a crash between any two
\* of its durable statements) and after it, every Record that had a durable
\* row before the call has a durable row, under its old or its new key, that
\* holds its DDLs.
C4_ReconcileLosesNoRow ==
    (cau.pc # "idle" \/ ret.op = "CheckAndUpdate")
        => \A k \in Keys :
              RowKey(k) \in DOMAIN cau.rows0
              => \E k2 \in {k, Target(cau.schemaMap, cau.tablesMap, k)} :
                    /\ RowKey(k2) \in DOMAIN rows
                    /\ Unmarshal(rows[RowKey(k2)]).DDLs
                         = Unmarshal(cau.rows0[RowKey(k)]).DDLs

\* C10: every call that touches the connection runs with the lock held, so
\* none of them, ResetConn and Close included, takes a step while another
\* call is inside its critical section.
C10_ConnectionCallsHoldLock ==
    [][ /\ ResetConn => lock = "free"
        /\ Close => lock = "free"
        /\ (\E k \in SaveKeys, rs \in RealSchemas, rt \in RealTables,
               ddl \in DDLTexts : Save(k[1], k[2], rs, rt, ddl)) => lock = "free"
        /\ StorageInit => lock' = "free"
        /\ (\E r \in Renames : CheckAndUpdate(r[1], r[2])) => lock = "free"
      ]_vars

NoAdjacentRepeat(stmts) ==
    \A i \in 1..(Len(stmts) - 1) : stmts[i] # stmts[i + 1]

NoRecordRepeats ==
    /\ \A k \in Keys : NoAdjacentRepeat(DDLsIn(ddls, k[1], k[2]))
    /\ \A rk \in DOMAIN rows : NoAdjacentRepeat(Unmarshal(rows[rk]).DDLs)

\* C6: a Save that follows a Save of the same ddl for the same key returns
\* success without a durable statement; after it the Record's DDLs are as the
\* first Save left them, ending with that statement written once; and in
\* every state no Record has two equal adjacent entries in DDLs.
C6_IdempotentSave ==
    [][ /\ (ddls' # ddls \/ rows' # rows) => NoRecordRepeats'
        /\ (ret.op = "Save" /\ ret'.op = "Save" /\ ret'.arg = ret.arg)
            => \A k \in SaveKeys, rs \in RealSchemas, rt \in RealTables, ddl \in DDLTexts :
                  (/\ ret.arg = <<k[1], k[2], ddl>>
                   /\ Save(k[1], k[2], rs, rt, ddl))
                  => LET before == DDLsIn(ddls, k[1], k[2])
                         after == DDLsIn(ddls', k[1], k[2])
                         n == Len(after)
                     IN /\ ret'.ok
                        /\ ret'.sql = << >>
                        /\ rows' = rows
                        /\ after = before
                        /\ n >= 1
                        /\ after[n] = ddl
                        /\ n >= 2 => after[n - 1] # ddl
      ]_vars

C6_Witness ==
    /\ ret.op = "Save"
    /\ ret.ok
    /\ ret.sql = << >>
    /\ ret.had
    /\ Len(DDLsIn(ddls, ret.arg[1], ret.arg[2])) >= 2

\* stmts with each run of equal adjacent statements reduced to one
RECURSIVE Collapse(_)
Collapse(stmts) ==
    IF Len(stmts) <= 1 THEN stmts
    ELSE IF stmts[1] = stmts[2] THEN Collapse(Tail(stmts))
    ELSE <<stmts[1]>> \o Collapse(Tail(stmts))

\* C7: after successful Saves on a key since it was last deleted or cleared,
\* the Record's DDLs are the supplied ddl arguments in order, with only
\* immediately adjacent duplicates collapsed.
C7_AppendOrdering ==
    \A k \in Keys :
        (args[k] # << >> /\ args[k] # <<"?">>)
            => /\ Get(k[1], k[2]) # {}
               /\ DDLsIn(ddls, k[1], k[2]) = Collapse(args[k])

C7_Witness ==
    \E k \in Keys :
        /\ args[k] = <<"d1", "d2", "d1">>
        /\ DDLsIn(ddls, k[1], k[2]) = <<"d1", "d2", "d1">>

\* what a fresh store holds after Init loaded these rows
Reloaded(rws) == LoadRows(EmptyMap, rws, IdRows(rws))

\* C8: a successful Delete of a cached key leaves Get on it not found and no
\* Record for it in a fresh store that loads; the Records and rows of every
\* other key are as before.
C8_DeleteRemovesBothLayers ==
    [][ (ret'.op = "Delete" /\ ret'.ok)
        => \A gs \in Schemas, gt \in Tables :
              (/\ ret'.arg = <<gs, gt>>
               /\ Get(gs, gt) # {}
               /\ Delete(gs, gt))
              => /\ GetIn(ddls', gs, gt) = {}
                 /\ GetIn(Reloaded(rows'), gs, gt) = {}
                 /\ \A k \in Keys \ {<<gs, gt>>} :
                       /\ GetIn(ddls', k[1], k[2]) = Get(k[1], k[2])
                       /\ GetIn(Reloaded(rows'), k[1], k[2])
                            = GetIn(Reloaded(rows), k[1], k[2])
                       /\ (RowKey(k) \in DOMAIN rows') <=> (RowKey(k) \in DOMAIN rows)
      ]_vars

C8_Witness ==
    /\ ret.op = "Delete"
    /\ ret.ok
    /\ ret.had
    /\ ret.sql = <<"DELETE">>
    /\ ddls # EmptyMap
    /\ \E k \in Keys : Get(k[1], k[2]) # {} /\ RowKey(k) \in DOMAIN rows

\* C9: after a successful Clear the mapping is empty, Get finds no key, the
\* durable store holds no row of the source identity, and a Load that
\* follows leaves the mapping empty.
C9_ClearResetsFully ==
    [][ /\ (ret'.op = "Clear" /\ ret'.ok /\ Clear)
            => /\ ddls' = EmptyMap
               /\ \A k \in Keys : GetIn(ddls', k[1], k[2]) = {}
               /\ IdRows(rows') = {}
               /\ Reloaded(rows') = EmptyMap
        /\ (ret.op = "Clear" /\ ret.ok /\ ret'.op = "Load" /\ ret'.ok /\ Load)
            => ddls' = EmptyMap
      ]_vars

C9_Witness ==
    /\ ret.op = "Clear"
    /\ ret.ok
    /\ ret.had
    /\ ddls = EmptyMap
    /\ IdRows(rows) = {}

\* C11: a Get called while Saves run returns the Record as it stood outside
\* every critical section of Save, at its call or at its return: never a
\* schema entry without Record or a Record made but not yet appended to; it
\* never reads while a Save is inside; and a Get that had to wait returns.
C11_ConcurrentGet ==
    /\ [](/\ ~(rd.pc = "reading" /\ lock = "Save")
          /\ rd.pc = "done"
              => rd.result \in {rd.before, rd.after})
    /\ (rd.pc = "waiting") ~> (rd.pc = "done")

C11_Witness ==
    /\ rd.pc = "done"
    /\ rd.waited
    /\ rd.result # {}
    /\ rd.result # rd.before
    /\ rd.result = Get(rd.key[1], rd.key[2])

\* C12: in every call of CheckAndUpdate a DELETE of a Record's old row is
\* issued only directly after the REPLACE of that Record under its new key,
\* and that REPLACE succeeded; after a REPLACE that failed the call issues
\* no statement at all.
C12_WriteBeforeDelete ==
    \A j \in 1..Len(cau.log) :
        /\ cau.log[j][1] = "DELETE"
             => /\ j > 1
                /\ cau.log[j - 1]
                     = <<"REPLACE">>
                       \o Target(cau.schemaMap, cau.tablesMap, <<cau.log[j][2], cau.log[j][3]>>)
                       \o <<TRUE>>
        /\ (cau.log[j][1] = "REPLACE" /\ ~cau.log[j][4]) => j = Len(cau.log)

C12_Witness ==
    /\ ret.op = "CheckAndUpdate"
    /\ ret.ok
    /\ Len(cau.log) = 4
    /\ cau.log[2][1] = "DELETE"
    /\ cau.log[2][4]
    /\ <<cau.log[1][2], cau.log[1][3]>> # <<cau.log[2][2], cau.log[2][3]>>
    /\ RowKey(<<cau.log[1][2], cau.log[1][3]>>) \in DOMAIN rows

\* C13: nothing the caller does to the Record Get returned (assigning Schema
\* or Table, overwriting an element of DDLs, appending to DDLs) changes what
\* Get returns for any key, and every statement in a durable row is one that
\* was given to Save.
C13_GetReturnsCopy ==
    /\ [][Caller => \A k \in Keys : GetIn(ddls', k[1], k[2]) = Get(k[1], k[2])]_vars
    /\ [](\A rk \in DOMAIN rows :
             \A i \in 1..Len(Unmarshal(rows[rk]).DDLs) :
                 Unmarshal(rows[rk]).DDLs[i] \in DDLTexts)

\* C14: with a second store of another source identity on the same backing
\* table, only the second store's statements change a row of its identity,
\* its statements change no row of this store's identity and nothing cached,
\* and what Load caches for a key is the row of this store's identity.
C14_SourceScoping ==
    [][ /\ rows' # rows
            => IF OtherStore
               THEN RowsOf(rows', SourceID) = RowsOf(rows, SourceID) /\ ddls' = ddls
               ELSE RowsOf(rows', OtherID) = RowsOf(rows, OtherID)
        /\ (ret'.op = "Load" /\ Load)
            => \A k \in Keys :
                  LET own == {Unmarshal(rows[q]) : q \in {RowKey(k)} \cap DOMAIN rows}
                      got == GetIn(ddls', k[1], k[2])
                  IN /\ got \subseteq Get(k[1], k[2]) \cup own
                     /\ (ret'.ok /\ own # {}) => got = own
                     /\ own = {} => got = Get(k[1], k[2])
      ]_vars

C14_Witness ==
    /\ ret.op = "Clear"
    /\ ret.ok
    /\ ret.had
    /\ RowsOf(rows, SourceID) = EmptyMap
    /\ Cardinality(DOMAIN RowsOf(rows, OtherID)) = 2

\* the cached keys the maps of a call rename: the schema is a key of the
\* schema map or the table a key of that schema's table map
Migrated(mem, schemaMap, tablesMap) ==
    {k \in Keys : /\ GetIn(mem, k[1], k[2]) # {}
                  /\ \/ k[1] \in DOMAIN schemaMap
                     \/ k[2] \in DOMAIN Lookup(tablesMap, k[1], EmptyMap)}

\* the targets of the call in cau are new: no Record and no row had such a
\* key before the call, and no two Records are sent to one key
FreshTargets ==
    LET mig == Migrated(cau.ddls0, cau.schemaMap, cau.tablesMap)
        tgt(k) == Target(cau.schemaMap, cau.tablesMap, k)
    IN /\ \A k \in mig : /\ GetIn(cau.ddls0, tgt(k)[1], tgt(k)[2]) = {}
                         /\ RowKey(tgt(k)) \notin DOMAIN cau.rows0
       /\ \A k1 \in mig, k2 \in mig : tgt(k1) = tgt(k2) => k1 = k2

C16_ReconcileFrame ==
    (ret.op = "CheckAndUpdate" /\ ret.ok /\ ~cau.rerun)
        => \A k \in Keys \ Migrated(cau.ddls0, cau.schemaMap, cau.tablesMap) :
              GetIn(cau.ddls0, k[1], k[2]) # {}
              => /\ Get(k[1], k[2]) = GetIn(cau.ddls0, k[1], k[2])
                 /\ RowKey(k) \in DOMAIN cau.rows0
                      => /\ RowKey(k) \in DOMAIN rows
                         /\ rows[RowKey(k)] = cau.rows0[RowKey(k)]

\* what a successful call with these maps can leave, over all orders of range
Outcomes(mem, rws, schemaMap, tablesMap) ==
    {CheckAndUpdateIn(mem, rws, schemaMap, tablesMap, o) : o \in Orders(mem)}

\* C17: from every state in which CheckAndUpdate can be called and for all
\* rename maps, the rows and what Get returns after a successful call are the
\* same whatever the order in which range visits the schemas and tables.
C17_OrderIndependent ==
    lock = "free"
        => \A r \in Renames :
              \A a \in Outcomes(ddls, rows, r[1], r[2]),
                 b \in Outcomes(ddls, rows, r[1], r[2]) :
                    /\ a.rows = b.rows
                    /\ \A k \in Keys : GetIn(a.ddls, k[1], k[2]) = GetIn(b.ddls, k[1], k[2])

\* a call that succeeded at its first attempt left one of the outcomes
StepsAgreeWithCall ==
    (ret.op = "CheckAndUpdate" /\ ret.ok /\ ~cau.rerun)
        => [ddls |-> ddls, rows |-> rows]
              \in Outcomes(cau.ddls0, cau.rows0, cau.schemaMap, cau.tablesMap)

\* C18: when CheckAndUpdate returned an error of the durable store after some
\* of its statements and is called again with the same maps, the retried call
\* fails only if a statement fails again, and when it succeeds the rows and
\* the mapping are what one successful call from the state before the first
\* attempt leaves.
C18_RerunConverges ==
    (ret.op = "CheckAndUpdate" /\ cau.rerun)
        => IF ret.ok
           THEN [ddls |-> ddls, rows |-> rows]
                   \in Outcomes(cau.ddls0, cau.rows0, cau.schemaMap, cau.tablesMap)
           ELSE /\ cau.log # << >>
                /\ ~cau.log[Len(cau.log)][4]

\* C19: when the DELETE statement of Delete or of Clear fails, the call
\* returns the error after that one statement and the mapping is as before
\* the call, so Get returns what it returned; Delete and Clear return an
\* error in no other case; Delete for a ghost schema that is not cached
\* issues no statement, returns nil and changes neither layer.
C19_DurableFirst ==
    [][ LET called == \/ ret'.op = "Clear" /\ Clear
                      \/ ret'.op = "Delete" /\ Delete(ret'.arg[1], ret'.arg[2])
        IN (ret'.op \in {"Delete", "Clear"})
           => /\ (conn # "ok" /\ ret'.sql = <<"DELETE">> /\ called)
                  => /\ ~ret'.ok
                     /\ ddls' = ddls
                     /\ \A k \in Keys : GetIn(ddls', k[1], k[2]) = Get(k[1], k[2])
              /\ (~ret'.ok /\ called)
                  => /\ conn # "ok"
                     /\ ret'.sql = <<"DELETE">>
                     /\ ddls' = ddls
                     /\ rows' = rows
              /\ (/\ ret'.op = "Delete"
                  /\ ret'.arg[1] \notin DOMAIN ddls
                  /\ called)
                  => /\ ret'.ok
                     /\ ret'.sql = << >>
                     /\ ddls' = ddls
                     /\ rows' = rows
      ]_vars

C19_Witness ==
    /\ ret.op = "Delete"
    /\ ~ret.ok
    /\ ret.had
    /\ ret.sql = <<"DELETE">>
    /\ Get(ret.arg[1], ret.arg[2]) # {}
    /\ RowKey(ret.arg) \in DOMAIN rows
    /\ Cardinality(IdRows(rows)) = 2

\* C20: when a row of the source identity holds a payload that does not
\* deserialize, Load does not return nil, it returns the InvalidMeta error
\* when the durable store answers, and after it Get on the key of such a row
\* returns not found or the Record it returned before the Load.
C20_LoadSurfacesCorruption ==
    [][ (ret'.op = "Load" /\ BadRows(rows) # {} /\ Load)
        => /\ ~ret'.ok
           /\ (conn = "ok" /\ conn' = "ok") => ret'.err = "InvalidMeta"
           /\ \A k \in Keys :
                 RowKey(k) \in BadRows(rows)
                    => GetIn(ddls', k[1], k[2]) \in {{}, Get(k[1], k[2])}
      ]_vars

====
